---- MODULE Spec2Model ----
(***************************************************************************)
(* Klondike by Threes (src/klondike.py) on top of the suit_card_deck       *)
(* library (src/suit_card_deck/__init__.py).                               *)
(*                                                                         *)
(* A Card is modelled by its absolute position 0..51; suit, rank and       *)
(* colour are derived from it as Card.__init__ derives them.  A Pile is    *)
(* the sequence of its cards, Python index 0 (the top) being TLA+ index 1. *)
(* A Deck is the record [access, top]: access[i+1] is Python _access[i].   *)
(* Every library call is an operator returning the state it leaves behind  *)
(* together with err, the exception it raised ("none" when it returned).   *)
(***************************************************************************)
EXTENDS Integers, Sequences, FiniteSets, TLC

(* ---------------------------- constants of the program ----------------- *)
DeckSize == 52
SuitSize == 13
LastSlot == 51
rK == 13
rA == 14
TableauCount == 7
TurnSize == 3
ShufflePasses == 5

(* ---------------------------- bounds of the model ---------------------- *)
NumSeeds == 3
MaxOps == 4
MaxTimes == 2
MaxMinimumCut == 5
MaxDealt == 6
MaxReturns == 2

Cards == 0 .. (DeckSize - 1)

Max(a, b) == IF a >= b THEN a ELSE b
Min(a, b) == IF a <= b THEN a ELSE b

Reverse(s) == [k \in 1 .. Len(s) |-> s[Len(s) + 1 - k]]
SeqToSet(s) == {s[k] : k \in 1 .. Len(s)}
NoDuplicates(s) == \A a, b \in 1 .. Len(s) : s[a] = s[b] => a = b

(* ---------------------------- Suit and Card ---------------------------- *)
colors == <<"black", "red", "red", "black">>
names == <<"Club", "Diamond", "Heart", "Spade">>
initials == <<"C", "D", "H", "S">>

\* Card.__init__: self._s, self._p = divmod(position, 13)
suit(card) == card \div SuitSize
offset(card) == card % SuitSize
color(card) == colors[suit(card) + 1]
initial(card) == initials[suit(card) + 1]
\* Card.rank: Rank(2 + self._p), Ace high
rank(card) == 2 + offset(card)
\* a faulty nrank that keeps the Ace high (for C10)
nrank_ace_high(card) == rank(card)

\* Card.nrank: 1 + self._p if self._p < 12 else 0
nrank(card) == IF offset(card) < 12 THEN 1 + offset(card) ELSE 0

(* ---------------------------- Pile ------------------------------------- *)
\* a faulty turn_over that leaves the pile as it lies (for C6)
turn_over_not(cards) == cards

\* Pile.turn_over
turn_over(cards) == Reverse(cards)

\* Pile.sort: list.sort(key = Card.position, reverse = reverse), a stable
\* sort: the card at index i goes behind the cards that come before it in
\* the order asked for and behind its equals that lay before it
sort(cards, reverse) ==
    LET ahead(i) == {j \in 1 .. Len(cards) :
                        \/ (IF reverse THEN cards[j] > cards[i] ELSE cards[j] < cards[i])
                        \/ (cards[j] = cards[i] /\ j < i)}
    IN  [k \in 1 .. Len(cards) |->
            cards[CHOOSE i \in 1 .. Len(cards) : Cardinality(ahead(i)) = k - 1]]

\* a faulty receive that does not look for the card in the pile (for C23)
receive_unchecked(cards, card) == [err |-> "none", cards |-> <<card>> \o cards]

\* a faulty receive that slips the card under the pile (for C7)
receive_bottom(cards, card) ==
    IF \E k \in 1 .. Len(cards) : cards[k] = card
    THEN [err |-> "PilingError", cards |-> cards]
    ELSE [err |-> "none", cards |-> Append(cards, card)]

\* Pile.receive: the duplicate scan compares positions, then insert(0, card)
receive(cards, card) ==
    IF \E k \in 1 .. Len(cards) : cards[k] = card
    THEN [err |-> "PilingError", cards |-> cards]
    ELSE [err |-> "none", cards |-> <<card>> \o cards]

\* a faulty remove that hands out the top card and keeps it too (for C2)
remove_keep(cards) ==
    IF Len(cards) # 0
    THEN [err |-> "none", card |-> Head(cards), cards |-> cards]
    ELSE [err |-> "PilingError", cards |-> cards]

\* Pile.remove: pop(0), PilingError on an empty pile
remove(cards) ==
    IF Len(cards) # 0
    THEN [err |-> "none", card |-> Head(cards), cards |-> Tail(cards)]
    ELSE [err |-> "PilingError", cards |-> cards]

\* the loops `pile_cards.insert(0, pile.remove())`, run n times
RECURSIVE take_loop(_, _, _)
take_loop(cards, pile_cards, n) ==
    IF n <= 0
    THEN [err |-> "none", cards |-> cards, pile_cards |-> pile_cards]
    ELSE LET r == remove(cards)
         IN  IF r.err # "none"
             THEN [err |-> r.err, cards |-> r.cards, pile_cards |-> pile_cards]
             ELSE take_loop(r.cards, <<r.card>> \o pile_cards, n - 1)

\* the loops `for card in pile_cards: dest.receive(card)`; the first
\* PilingError ends the loop with the cards received so far in place
RECURSIVE receive_loop(_, _)
receive_loop(cards, pile_cards) ==
    IF Len(pile_cards) = 0
    THEN [err |-> "none", cards |-> cards]
    ELSE LET r == receive(cards, Head(pile_cards))
         IN  IF r.err # "none" THEN r ELSE receive_loop(r.cards, Tail(pile_cards))

\* a faulty receive_pile that slips the donor's cards under this pile's
\* cards (for C25)
receive_pile_under(cards, pile) ==
    LET t == take_loop(pile, <<>>, Len(pile))
        r == receive_loop(<<>>, t.pile_cards)
    IN  IF \E k \in 1 .. Len(pile) : pile[k] \in SeqToSet(cards)
        THEN [err |-> "PilingError", cards |-> cards, pile |-> t.cards]
        ELSE [err |-> r.err, cards |-> cards \o r.cards, pile |-> t.cards]

\* a faulty receive_pile that receives the donor's cards top first, so
\* that they arrive in reverse order (for C11)
receive_pile_reversed(cards, pile) ==
    LET t == take_loop(pile, <<>>, Len(pile))
        r == receive_loop(cards, Reverse(t.pile_cards))
    IN  [err |-> r.err, cards |-> r.cards, pile |-> t.cards]

\* Pile.receive_pile: the donor is emptied first, then its cards are received
receive_pile(cards, pile) ==
    LET t == take_loop(pile, <<>>, Len(pile))
        r == receive_loop(cards, t.pile_cards)
    IN  [err |-> r.err, cards |-> r.cards, pile |-> t.cards]

\* a faulty remove_pile whose new Pile receives the cards as they come off,
\* the former top card first, so that it ends underneath (for C24)
remove_pile_upside_down(cards, cards_to_take) ==
    IF cards_to_take <= Len(cards)
    THEN LET t == take_loop(cards, <<>>, cards_to_take)
             r == receive_loop(<<>>, Reverse(t.pile_cards))
         IN  [err |-> r.err, cards |-> t.cards, new_pile |-> r.cards]
    ELSE [err |-> "PilingError", cards |-> cards, new_pile |-> <<>>]

\* a faulty remove_pile that takes one card more when there is one (for C4)
remove_pile_more(cards, cards_to_take) ==
    IF cards_to_take <= Len(cards)
    THEN LET t == take_loop(cards, <<>>, Min(cards_to_take + 1, Len(cards)))
             r == receive_loop(<<>>, t.pile_cards)
         IN  [err |-> r.err, cards |-> t.cards, new_pile |-> r.cards]
    ELSE [err |-> "PilingError", cards |-> cards, new_pile |-> <<>>]

\* Pile.remove_pile
remove_pile(cards, cards_to_take) ==
    IF cards_to_take <= Len(cards)
    THEN LET t == take_loop(cards, <<>>, cards_to_take)
             r == receive_loop(<<>>, t.pile_cards)
         IN  [err |-> r.err, cards |-> t.cards, new_pile |-> r.cards]
    ELSE [err |-> "PilingError", cards |-> cards, new_pile |-> <<>>]

(* ---------------------------- random ----------------------------------- *)
\* random.shuffle(x) of the standard library leaves x permuted; which
\* permutation is the generator's choice and an input of the model:
\* Permutation(seed, pass, n)[k] is the old index of the entry that ends at
\* index k, for the pass-th shuffle (from 0) of one call on a list of n
\* entries under the generator state named seed.  For a whole deck the
\* first seeds are tabulated: DealTables[seed] lists the positions in the
\* order the first pass leaves them, the later passes leaving them alone.
\* Any other list is rotated by seed + pass + 1.
DealTables ==
    <<<<30, 27, 36, 37, 38, 35, 29, 26, 28, 16, 24, 34, 42,
          13, 15, 23, 33, 41, 14, 18, 31, 40, 17, 25, 39, 50,
          51, 11,  1,  0, 12,  4,  3,  2,  7,  6,  5, 10,  9,
           8, 45, 44, 43, 48, 47, 46, 20, 19, 49, 32, 22, 21>>,
      <<45, 24, 38,  8, 35,  6,  1, 25, 18, 14, 13, 40, 26,
          43, 12, 15, 50, 42, 10, 27,  5, 31, 21, 49, 32,  0,
          36, 39, 29,  2, 30, 16, 28, 34, 33, 47, 41, 37, 44,
          20, 19, 48,  3, 22, 11,  4,  9, 17,  7, 46, 51, 23>>,
      <<48, 28, 29, 41, 20, 32, 17, 51, 19, 33, 47,  6, 38,
          15, 10, 49, 50,  1,  4,  0, 40, 25, 26, 23, 34,  8,
           9, 30, 21, 37,  7, 18, 27, 43, 12, 16,  5, 24,  2,
           3, 39, 14, 44, 13, 22, 35, 45, 31, 46, 42, 11, 36>>,
      <<41, 11,  1, 12, 31,  4,  6, 19, 15, 20, 47, 49, 13,
          37,  8, 40,  0, 10,  5, 17, 43, 24, 28, 36, 51, 32,
          46, 21, 30, 18, 42,  7, 39, 50, 23,  3, 48,  9, 44,
          22, 33, 26, 16, 34, 27, 38, 35, 29, 25, 14,  2, 45>>>>

Permutation(seed, pass, n) ==
    IF n = DeckSize /\ seed \in DOMAIN DealTables
    THEN IF pass = 0
         THEN [k \in 1 .. n |-> DealTables[seed][k] + 1]
         ELSE [k \in 1 .. n |-> k]
    ELSE [k \in 1 .. n |-> ((k + seed + pass) % n) + 1]

random_shuffle(x, seed, pass) ==
    [k \in 1 .. Len(x) |-> x[Permutation(seed, pass, Len(x))[k]]]

\* `for count in range(times): random.shuffle(x)`: the list after the
\* passes 0 .. times-1
RECURSIVE shuffle_times(_, _, _)
shuffle_times(x, times, seed) ==
    IF times <= 0
    THEN x
    ELSE random_shuffle(shuffle_times(x, times - 1, seed), seed, times - 1)

(* ---------------------------- Deck ------------------------------------- *)
\* Deck.__init__
NewDeck == [access |-> [i \in 1 .. DeckSize |-> i - 1], top |-> 0]

cards_left(D) == Len(D.access) - D.top

\* the undealt partition _access[_top:] and the dealt one _access[:_top]
undealt(D) == SubSeq(D.access, D.top + 1, Len(D.access))
dealt(D) == SubSeq(D.access, 1, D.top)

\* a faulty deal that hands out cards from the far end of _access (for C15)
deal_from_end(D) ==
    IF D.top <= LastSlot
    THEN [err |-> "none", card |-> D.access[Len(D.access) - D.top],
          deck |-> [D EXCEPT !.top = D.top + 1]]
    ELSE [err |-> "EmptyDeckError", deck |-> D]

\* Deck.deal
deal(D) ==
    IF D.top <= LastSlot
    THEN [err |-> "none", card |-> D.access[D.top + 1],
          deck |-> [D EXCEPT !.top = D.top + 1]]
    ELSE [err |-> "EmptyDeckError", deck |-> D]

\* the loop of Deck.deal_to_pile: pile.receive(self.deal()), count times.
\* One turn is the loop's body; more turns are the first half of them and,
\* unless one of those raised, the rest, in the same order.
RECURSIVE deal_loop(_, _, _)
deal_loop(D, pile, count) ==
    IF count <= 0
    THEN [err |-> "none", deck |-> D, pile |-> pile]
    ELSE IF count = 1
    THEN LET d == deal(D)
         IN  IF d.err # "none"
             THEN [err |-> d.err, deck |-> d.deck, pile |-> pile]
             ELSE LET r == receive(pile, d.card)
                  IN  IF r.err # "none"
                      THEN [err |-> r.err, deck |-> d.deck, pile |-> pile]
                      ELSE [err |-> "none", deck |-> d.deck, pile |-> r.cards]
    ELSE LET first == deal_loop(D, pile, count \div 2)
         IN  IF first.err # "none"
             THEN first
             ELSE deal_loop(first.deck, first.pile, count - (count \div 2))

\* Deck.deal_to_pile
deal_to_pile(D, count, pile) ==
    IF count > cards_left(D)
    THEN [err |-> "EmptyDeckError", deck |-> D, pile |-> pile]
    ELSE deal_loop(D, pile, Max(0, count))

\* Deck.deal_pile
deal_pile(D, count) == deal_to_pile(D, count, <<>>)

\* a faulty shuffle that permutes the whole of _access, the dealt cards
\* included (for C21)
shuffle_whole_deck(D, times, seed) ==
    IF D.top > LastSlot
    THEN [err |-> "EmptyDeckError", deck |-> D]
    ELSE [err |-> "none",
          deck |-> [D EXCEPT !.access =
                       shuffle_times(D.access, Max(0, times), seed)]]

\* Deck.shuffle
shuffle(D, times, seed) ==
    IF D.top > LastSlot
    THEN [err |-> "EmptyDeckError", deck |-> D]
    ELSE IF D.top = LastSlot
    THEN [err |-> "none", deck |-> D]
    ELSE IF D.top # 0
    THEN [err |-> "none",
          deck |-> [D EXCEPT !.access =
                       dealt(D) \o shuffle_times(undealt(D), times, seed)]]
    ELSE [err |-> "none",
          deck |-> [D EXCEPT !.access =
                       shuffle_times(D.access, Max(0, times), seed)]]

\* a faulty cut that puts the two chunks back as they lay (for C16)
cut_in_place(D, cards_to_take, minimum_cut, rnd) ==
    LET middle_of_the_pack == cards_left(D) - (2 * minimum_cut)
        taken == IF cards_to_take.none THEN minimum_cut + rnd ELSE cards_to_take.n
    IN  IF middle_of_the_pack < 0
        THEN [err |-> "EmptyDeckError", deck |-> D]
        ELSE IF ~cards_to_take.none
                /\ (taken < minimum_cut \/ taken > cards_left(D) - minimum_cut)
        THEN [err |-> "EmptyDeckError", deck |-> D]
        ELSE [err |-> "none", deck |-> D]

\* a faulty cut that lets one card fewer than minimum_cut be taken (for C17)
cut_one_short(D, cards_to_take, minimum_cut, rnd) ==
    LET middle_of_the_pack == cards_left(D) - (2 * minimum_cut)
        taken == IF cards_to_take.none THEN minimum_cut + rnd ELSE cards_to_take.n
    IN  IF middle_of_the_pack < 0
        THEN [err |-> "EmptyDeckError", deck |-> D]
        ELSE IF ~cards_to_take.none
                /\ (taken < minimum_cut - 1 \/ taken > cards_left(D) - minimum_cut)
        THEN [err |-> "EmptyDeckError", deck |-> D]
        ELSE [err |-> "none",
              deck |-> [D EXCEPT !.access =
                           SubSeq(D.access, 1, D.top)
                           \o SubSeq(D.access, D.top + taken + 1, Len(D.access))
                           \o SubSeq(D.access, D.top + 1, D.top + taken)]]

\* Deck.cut.  cards_to_take is [none |-> TRUE] for None, else
\* [none |-> FALSE, n |-> the count]; rnd is what random.randint returns.
cut(D, cards_to_take, minimum_cut, rnd) ==
    LET middle_of_the_pack == cards_left(D) - (2 * minimum_cut)
        taken == IF cards_to_take.none THEN minimum_cut + rnd ELSE cards_to_take.n
    IN  IF middle_of_the_pack < 0
        THEN [err |-> "EmptyDeckError", deck |-> D]
        ELSE IF ~cards_to_take.none
                /\ (taken < minimum_cut \/ taken > cards_left(D) - minimum_cut)
        THEN [err |-> "EmptyDeckError", deck |-> D]
        ELSE LET already_dealt_cards == SubSeq(D.access, 1, D.top)
                 cut_pile == SubSeq(D.access, D.top + 1, D.top + taken)
                 left_pile == SubSeq(D.access, D.top + taken + 1, Len(D.access))
             IN  [err |-> "none",
                  deck |-> [D EXCEPT !.access =
                               already_dealt_cards \o left_pile \o cut_pile]]

\* a faulty list.remove that drops the last entry whatever C is (for C19)
list_remove_last(s, C) == SubSeq(s, 1, Len(s) - 1)

\* a faulty list.remove that drops nothing (for C1)
list_remove_none(s, C) == s

\* list.remove(C): drop the first entry equal to C
list_remove(s, C) ==
    LET k == CHOOSE a \in 1 .. Len(s) :
                 s[a] = C /\ \A b \in 1 .. (a - 1) : s[b] # C
    IN  SubSeq(s, 1, k - 1) \o SubSeq(s, k + 1, Len(s))

\* a faulty put_back_card that moves _top back and leaves the card where
\* it was in _access (for C18)
put_back_card_in_place(D, card, own) ==
    IF ~own
    THEN [err |-> "MismatchedDeckError", deck |-> D]
    ELSE IF \E k \in (D.top + 1) .. Len(D.access) : D.access[k] = card
    THEN [err |-> "MismatchedDeckError", deck |-> D]
    ELSE [err |-> "none", deck |-> [D EXCEPT !.top = D.top - 1]]

\* a faulty put_back_card that takes back a card that is not dealt (for C20)
put_back_card_unchecked(D, card, own) ==
    IF ~own
    THEN [err |-> "MismatchedDeckError", deck |-> D]
    ELSE [err |-> "none",
          deck |-> [access |-> Append(list_remove(D.access, card), card),
                    top |-> Max(0, D.top - 1)]]

\* a faulty put_back_card that puts the card on top of the undealt cards
\* instead of under them (for C5)
put_back_card_front(D, card, own) ==
    IF ~own
    THEN [err |-> "MismatchedDeckError", deck |-> D]
    ELSE IF \E k \in (D.top + 1) .. Len(D.access) : D.access[k] = card
    THEN [err |-> "MismatchedDeckError", deck |-> D]
    ELSE [err |-> "none",
          deck |-> [access |-> SubSeq(list_remove(D.access, card), 1, D.top - 1)
                               \o <<card>> \o undealt(D),
                    top |-> D.top - 1]]

\* Deck.put_back_card; own is `card._deck is self`
put_back_card(D, card, own) ==
    IF ~own
    THEN [err |-> "MismatchedDeckError", deck |-> D]
    ELSE IF \E k \in (D.top + 1) .. Len(D.access) : D.access[k] = card
    THEN [err |-> "MismatchedDeckError", deck |-> D]
    ELSE [err |-> "none",
          deck |-> [access |-> Append(list_remove(D.access, card), card),
                    top |-> D.top - 1]]

\* a faulty put_back_pile that takes the pile's cards from the bottom up
\* (for C26)
RECURSIVE put_back_pile_bottom_first(_, _)
put_back_pile_bottom_first(D, pile) ==
    IF Len(pile) = 0
    THEN [err |-> "none", deck |-> D, pile |-> pile]
    ELSE IF Len(pile) = 1
    THEN LET r == put_back_card(D, pile[1], TRUE)
         IN  IF r.err # "none"
             THEN [err |-> r.err, deck |-> D, pile |-> <<>>]
             ELSE [err |-> "none", deck |-> r.deck, pile |-> <<>>]
    ELSE LET half == Len(pile) \div 2
             first == put_back_pile_bottom_first(D, SubSeq(pile, half + 1, Len(pile)))
         IN  IF first.err # "none"
             THEN [first EXCEPT !.pile = SubSeq(pile, 1, half) \o first.pile]
             ELSE put_back_pile_bottom_first(first.deck, SubSeq(pile, 1, half))

\* Deck.put_back_pile: while len(pile): self.put_back_card(pile.remove()).
\* One card is the loop's body; more cards are the upper half of the pile
\* and, unless one of those raised, the cards under it, top card first.
RECURSIVE put_back_pile(_, _)
put_back_pile(D, pile) ==
    IF Len(pile) = 0
    THEN [err |-> "none", deck |-> D, pile |-> pile]
    ELSE IF Len(pile) = 1
    THEN LET r == put_back_card(D, Head(pile), TRUE)
         IN  IF r.err # "none"
             THEN [err |-> r.err, deck |-> D, pile |-> Tail(pile)]
             ELSE [err |-> "none", deck |-> r.deck, pile |-> Tail(pile)]
    ELSE LET half == Len(pile) \div 2
             first == put_back_pile(D, SubSeq(pile, 1, half))
         IN  IF first.err # "none"
             THEN [first EXCEPT !.pile = first.pile \o SubSeq(pile, half + 1, Len(pile))]
             ELSE put_back_pile(first.deck, SubSeq(pile, half + 1, Len(pile)))

(* ---------------------------- Klondike ---------------------------------- *)
\* Python indexing pile[i], a negative i counting from the bottom
item(cards, i) == IF i >= 0 THEN cards[i + 1] ELSE cards[Len(cards) + i + 1]

\* str.index for the one-letter arguments of move
index(letters, letter) ==
    (CHOOSE k \in 1 .. Len(letters) : letters[k] = letter) - 1

TableauLetters == <<"1", "2", "3", "4", "5", "6", "7">>
SourceLetters == {"P"} \cup SeqToSet(TableauLetters)
DestLetters == SeqToSet(initials) \cup SeqToSet(TableauLetters)

\* the deal of Klondike.__init__, inner loop:
\*   for p in range(j, 7): tableau[p].receive(deck.deal())
RECURSIVE deal_row(_, _, _)
deal_row(T, D, p) ==
    IF p >= TableauCount
    THEN [err |-> "none", tableau |-> T, deck |-> D]
    ELSE LET r == deal_loop(D, T[p], 1)
         IN  IF r.err # "none"
             THEN [err |-> r.err, tableau |-> T, deck |-> r.deck]
             ELSE deal_row([T EXCEPT ![p] = r.pile], r.deck, p + 1)

\* a faulty deal that stops after the first row (for C14)
deal_tableau_one_row(T, D, j) == deal_row(T, D, j)

\* the deal of Klondike.__init__, outer loop: for j in range(7)
RECURSIVE deal_tableau(_, _, _)
deal_tableau(T, D, j) ==
    IF j >= TableauCount
    THEN [err |-> "none", tableau |-> T, deck |-> D]
    ELSE LET r == deal_row(T, D, j)
         IN  IF r.err # "none" THEN r ELSE deal_tableau(r.tableau, r.deck, j + 1)

\* Klondike.__init__, the generator seeded with seed
Klondike(seed) ==
    LET shuffled == shuffle(NewDeck, ShufflePasses, seed)
        empty == [p \in 0 .. (TableauCount - 1) |-> <<>>]
        t == IF shuffled.err # "none"
             THEN [err |-> shuffled.err, tableau |-> empty, deck |-> shuffled.deck]
             ELSE deal_tableau(empty, shuffled.deck, 0)
    IN  [aces |-> [s \in 0 .. 3 |-> <<>>],
         tableau |-> t.tableau,
         deck |-> t.deck,
         pack |-> <<>>,
         faceup_count |-> [p \in 0 .. (TableauCount - 1) |-> 1]]

\* a faulty game_over that calls the game won once the deck and the pack
\* are used up (for C13)
game_over_stock_empty(G) == cards_left(G.deck) = 0 /\ Len(G.pack) = 0

\* Klondike.game_over
game_over(G) ==
    DeckSize = Len(G.aces[0]) + Len(G.aces[1]) + Len(G.aces[2]) + Len(G.aces[3])

\* a faulty turn_the_deck that also sets every face-up count back to 1
\* (for C33)
turn_the_deck_counts_reset(G) ==
    IF cards_left(G.deck) = 0 /\ Len(G.pack) = 0
    THEN G
    ELSE LET back == IF cards_left(G.deck) = 0
                     THEN put_back_pile(G.deck, turn_over(G.pack))
                     ELSE [err |-> "none", deck |-> G.deck, pile |-> G.pack]
             turned == deal_loop(back.deck, back.pile,
                                 Min(TurnSize, cards_left(back.deck)))
         IN  [G EXCEPT !.deck = turned.deck, !.pack = turned.pile,
                       !.faceup_count = [p \in 0 .. (TableauCount - 1) |-> 1]]

\* Klondike.turn_the_deck
turn_the_deck(G) ==
    IF cards_left(G.deck) = 0 /\ Len(G.pack) = 0
    THEN G
    ELSE LET back == IF cards_left(G.deck) = 0
                     THEN put_back_pile(G.deck, turn_over(G.pack))
                     ELSE [err |-> "none", deck |-> G.deck, pile |-> G.pack]
             \* for k in range(min(3, len(deck))): pack.receive(deck.deal())
             turned == deal_loop(back.deck, back.pile,
                                 Min(TurnSize, cards_left(back.deck)))
         IN  [G EXCEPT !.deck = turned.deck, !.pack = turned.pile]

\* a faulty can_play_to that ignores the colours on the tableau (for C9)
can_play_to_any_color(card, dest, flag) ==
    IF flag = "T"
    THEN \/ /\ Len(dest) # 0
            /\ rank(card) < rA
            /\ rank(item(dest, 0)) = rank(card) + 1
         \/ /\ 0 = Len(dest)
            /\ rank(card) = rK
    ELSE \/ /\ Len(dest) # 0
            /\ suit(card) = suit(item(dest, 0))
            /\ nrank(card) = nrank(item(dest, 0)) + 1
         \/ /\ 0 = Len(dest)
            /\ initial(card) = flag
            /\ rank(card) = rA

\* a faulty can_play_to that lets an Ace start any empty foundation
\* (for C29)
can_play_to_any_foundation(card, dest, flag) ==
    IF flag = "T"
    THEN \/ /\ Len(dest) # 0
            /\ rank(card) < rA
            /\ color(card) # color(item(dest, 0))
            /\ rank(item(dest, 0)) = rank(card) + 1
         \/ /\ 0 = Len(dest)
            /\ rank(card) = rK
    ELSE \/ /\ Len(dest) # 0
            /\ suit(card) = suit(item(dest, 0))
            /\ nrank(card) = nrank(item(dest, 0)) + 1
         \/ /\ 0 = Len(dest)
            /\ rank(card) = rA

\* a faulty can_play_to that lets a column take any card lower than its
\* top card, of the other colour (for C30)
can_play_to_any_lower(card, dest, flag) ==
    IF flag = "T"
    THEN \/ /\ Len(dest) # 0
            /\ rank(card) < rA
            /\ color(card) # color(item(dest, 0))
            /\ rank(item(dest, 0)) >= rank(card) + 1
         \/ /\ 0 = Len(dest)
            /\ rank(card) = rK
    ELSE \/ /\ Len(dest) # 0
            /\ suit(card) = suit(item(dest, 0))
            /\ nrank(card) = nrank(item(dest, 0)) + 1
         \/ /\ 0 = Len(dest)
            /\ initial(card) = flag
            /\ rank(card) = rA

\* Klondike.can_play_to; dest is the pile's cards, flag its flag
can_play_to(card, dest, flag) ==
    IF flag = "T"
    THEN \/ /\ Len(dest) # 0
            /\ rank(card) < rA
            /\ color(card) # color(item(dest, 0))
            /\ rank(item(dest, 0)) = rank(card) + 1
         \/ /\ 0 = Len(dest)
            /\ rank(card) = rK
    ELSE \/ /\ Len(dest) # 0
            /\ suit(card) = suit(item(dest, 0))
            /\ nrank(card) = nrank(item(dest, 0)) + 1
         \/ /\ 0 = Len(dest)
            /\ initial(card) = flag
            /\ rank(card) = rA

\* a faulty bookkeeping that counts one card gained by the destination
\* however many arrived (for C12)
count_faceup_dest_one(fc, source_is_tableau, source_number, dest_is_tableau, dest_number, cards_moved, source_len) ==
    LET gained == IF dest_is_tableau
                  THEN [fc EXCEPT ![dest_number] = @ + 1]
                  ELSE fc
        lost == IF source_is_tableau
                THEN [gained EXCEPT ![source_number] = @ - cards_moved]
                ELSE gained
    IN  IF source_is_tableau /\ lost[source_number] = 0 /\ source_len # 0
        THEN [lost EXCEPT ![source_number] = 1]
        ELSE lost

\* a faulty bookkeeping that never turns up the next card (for C3)
count_faceup_no_reveal(fc, source_is_tableau, source_number, dest_is_tableau, dest_number, cards_moved, source_len) ==
    LET gained == IF dest_is_tableau
                  THEN [fc EXCEPT ![dest_number] = @ + cards_moved]
                  ELSE fc
    IN  IF source_is_tableau
        THEN [gained EXCEPT ![source_number] = @ - cards_moved]
        ELSE gained

\* a faulty bookkeeping that counts nothing for the destination, so that
\* the cards that arrive lie face down (for C31)
count_faceup_dest_none(fc, source_is_tableau, source_number, dest_is_tableau, dest_number, cards_moved, source_len) ==
    LET lost == IF source_is_tableau
                THEN [fc EXCEPT ![source_number] = @ - cards_moved]
                ELSE fc
    IN  IF source_is_tableau /\ lost[source_number] = 0 /\ source_len # 0
        THEN [lost EXCEPT ![source_number] = 1]
        ELSE lost

\* the face-up bookkeeping that ends Klondike.move
count_faceup(fc, source_is_tableau, source_number, dest_is_tableau, dest_number, cards_moved, source_len) ==
    LET gained == IF dest_is_tableau
                  THEN [fc EXCEPT ![dest_number] = @ + cards_moved]
                  ELSE fc
        lost == IF source_is_tableau
                THEN [gained EXCEPT ![source_number] = @ - cards_moved]
                ELSE gained
    IN  IF source_is_tableau /\ lost[source_number] = 0 /\ source_len # 0
        THEN [lost EXCEPT ![source_number] = 1]
        ELSE lost

\* the game with the source and destination piles of a move replaced
put_piles(G, source_is_tableau, source_number, source_cards, dest_is_tableau, dest_number, dest_cards) ==
    LET S == IF source_is_tableau
             THEN [G EXCEPT !.tableau[source_number] = source_cards]
             ELSE [G EXCEPT !.pack = source_cards]
    IN  IF dest_is_tableau
        THEN [S EXCEPT !.tableau[dest_number] = dest_cards]
        ELSE [S EXCEPT !.aces[dest_number] = dest_cards]

\* a faulty move that takes the source's top card before it finds the
\* move invalid (for C8)
move_removes_first(G, source_letter, dest_letter) ==
    LET source_number == IF source_letter # "P"
                         THEN index(TableauLetters, source_letter) ELSE 0
        source_pile == IF source_letter # "P"
                       THEN G.tableau[source_number] ELSE G.pack
    IN  IF 0 = Len(source_pile)
        THEN [err |-> "No cards in source", game |-> G]
        ELSE [err |-> "Invalid move",
              game |-> IF source_letter # "P"
                       THEN [G EXCEPT !.tableau[source_number] = Tail(source_pile)]
                       ELSE [G EXCEPT !.pack = Tail(source_pile)]]

\* Klondike.move
move(G, source_letter, dest_letter) ==
    LET source_is_tableau == source_letter # "P"
        source_number == IF source_is_tableau
                         THEN index(TableauLetters, source_letter) ELSE 0
        source_pile == IF source_is_tableau
                       THEN G.tableau[source_number] ELSE G.pack
        dest_is_tableau == dest_letter \notin SeqToSet(initials)
        dest_number == IF dest_is_tableau
                       THEN index(TableauLetters, dest_letter)
                       ELSE index(initials, dest_letter)
        dest_pile == IF dest_is_tableau
                     THEN G.tableau[dest_number] ELSE G.aces[dest_number]
        dest_flag == IF dest_is_tableau THEN "T" ELSE initials[dest_number + 1]
        source_faceup_count == G.faceup_count[source_number]
        done(source_cards, dest_cards, cards_moved) ==
            [err |-> "none",
             game |-> [put_piles(G, source_is_tableau, source_number, source_cards,
                                 dest_is_tableau, dest_number, dest_cards)
                       EXCEPT !.faceup_count =
                           count_faceup(G.faceup_count, source_is_tableau,
                                        source_number, dest_is_tableau, dest_number,
                                        cards_moved, Len(source_cards))]]
        failed(err, source_cards, dest_cards) ==
            [err |-> err,
             game |-> put_piles(G, source_is_tableau, source_number, source_cards,
                                dest_is_tableau, dest_number, dest_cards)]
        \* dest_pile.receive( source_pile.remove() )
        one_card ==
            LET r == receive(dest_pile, remove(source_pile).card)
            IN  IF r.err # "none"
                THEN failed(r.err, remove(source_pile).cards, r.cards)
                ELSE done(remove(source_pile).cards, r.cards, 1)
        \* dest_pile.receive_pile( source_pile.remove_pile(source_faceup_count) )
        all_faceup ==
            LET t == remove_pile(source_pile, source_faceup_count)
                r == receive_pile(dest_pile, t.new_pile)
            IN  IF t.err # "none"
                THEN failed(t.err, t.cards, dest_pile)
                ELSE IF r.err # "none"
                THEN failed(r.err, t.cards, r.cards)
                ELSE done(t.cards, r.cards, source_faceup_count)
    IN  IF 0 = Len(source_pile)
        THEN [err |-> "No cards in source", game |-> G]
        ELSE IF dest_is_tableau /\ source_is_tableau /\ dest_number = source_number
        THEN [err |-> "Source and destination are the same", game |-> G]
        ELSE IF dest_is_tableau /\ source_is_tableau
        THEN IF can_play_to(item(source_pile, source_faceup_count - 1),
                            dest_pile, dest_flag)
             THEN all_faceup
             ELSE IF can_play_to(item(source_pile, 0), dest_pile, dest_flag)
             THEN one_card
             ELSE [err |-> "Invalid move", game |-> G]
        ELSE IF can_play_to(item(source_pile, 0), dest_pile, dest_flag)
             THEN one_card
             ELSE [err |-> "Invalid move", game |-> G]

(* ---------------------------- state ------------------------------------ *)
\* deck, aces, tableau, pack and faceup_count are the attributes of the
\* Klondike object.  In SpecDeck deck is a lone Deck, hand the Pile of its
\* caller and calls the number of calls made so far.  In SpecCanPlay probe
\* is one call of can_play_to: its arguments and, once made, its answer.
\* last records the call that made the latest step: its name, the text of
\* the error it raised ("none" if it returned), and for the game's calls
\* the undealt count u and the pack's size n before it, the letters of a
\* move that was carried out and the number k of cards it moved.
VARIABLES deck, hand, calls, aces, tableau, pack, faceup_count, probe, last

vars == <<deck, hand, calls, aces, tableau, pack, faceup_count, probe, last>>

NoProbe == [card |-> 0, dest |-> <<>>, flag |-> "", made |-> FALSE, result |-> FALSE]

Last(op, err) ==
    [op |-> op, err |-> err, source |-> "", dest |-> "", k |-> 0, u |-> 0, n |-> 0]

\* the Klondike object as one value
Game == [aces |-> aces, tableau |-> tableau, deck |-> deck, pack |-> pack,
         faceup_count |-> faceup_count]

SetGame(G) == /\ aces' = G.aces
              /\ tableau' = G.tableau
              /\ deck' = G.deck
              /\ pack' = G.pack
              /\ faceup_count' = G.faceup_count

\* game = Klondike(GAME_SEED)
Init == \E seed \in 1 .. NumSeeds :
            LET G == Klondike(seed)
            IN  /\ deck = G.deck
                /\ aces = G.aces
                /\ tableau = G.tableau
                /\ pack = G.pack
                /\ faceup_count = G.faceup_count
                /\ hand = <<>>
                /\ calls = 0
                /\ probe = NoProbe
                /\ last = Last("init", "none")

\* The main loop reads a command while the game is not over.
\* command 'NN': game.turn_the_deck()
TurnTheDeck ==
    /\ ~game_over(Game)
    /\ LET G == turn_the_deck(Game)
       IN  /\ SetGame(G)
           /\ last' = [Last("turn_the_deck", "none") EXCEPT
                   !.u = cards_left(deck), !.n = Len(pack),
                   !.k = IF cards_left(deck) = 0 THEN Len(G.pack)
                                ELSE Len(G.pack) - Len(pack)]
    /\ UNCHANGED <<hand, calls, probe>>

\* any other command: game.move( command[0], command[1] )
Move ==
    /\ ~game_over(Game)
    /\ \E source_letter \in SourceLetters, dest_letter \in DestLetters :
        LET r == move(Game, source_letter, dest_letter)
            was == IF source_letter = "P" THEN pack
                   ELSE tableau[index(TableauLetters, source_letter)]
            is == IF source_letter = "P" THEN r.game.pack
                  ELSE r.game.tableau[index(TableauLetters, source_letter)]
        IN  /\ SetGame(r.game)
            /\ last' = IF r.err = "none"
                       THEN [Last("move", "none") EXCEPT
                                !.source = source_letter, !.dest = dest_letter,
                                !.k = Len(was) - Len(is),
                                !.u = cards_left(deck), !.n = Len(pack)]
                       ELSE [Last("move", r.err) EXCEPT
                                !.u = cards_left(deck), !.n = Len(pack)]
            /\ UNCHANGED <<hand, calls, probe>>

\* once game.game_over() the loop calls ask_another(): on a yes
\* game = Klondike(GAME_SEED), a new deal from the generator as it stands
\* (GAME_SEED is None); on a no the loop ends and no step follows
NewGame ==
    /\ game_over(Game)
    /\ \E seed \in 1 .. NumSeeds : SetGame(Klondike(seed))
    /\ last' = Last("init", "none")
    /\ UNCHANGED <<hand, calls, probe>>

Next == TurnTheDeck \/ Move \/ NewGame

Spec == Init /\ [][Next]_vars

(* ---------------------------- a lone Deck ------------------------------- *)
\* deck = Deck(); hand = Pile(): the library driven directly by a caller
\* making up to MaxOps calls, the failing ones included.
InitDeck ==
    /\ deck = NewDeck
    /\ hand = <<>>
    /\ calls = 0
    /\ aces = [s \in 0 .. 3 |-> <<>>]
    /\ tableau = [p \in 0 .. (TableauCount - 1) |-> <<>>]
    /\ pack = <<>>
    /\ faceup_count = [p \in 0 .. (TableauCount - 1) |-> 0]
    /\ probe = NoProbe
    /\ last = Last("init", "none")

DeckFrame == /\ calls' = calls + 1
             /\ UNCHANGED <<aces, tableau, pack, faceup_count, probe>>

HalfDeck == DeckSize \div 2

\* the counts a caller asks for: one card, half a deck, all that is left,
\* one more than is left
DealCounts == {1, HalfDeck, cards_left(deck), cards_left(deck) + 1}

\* hand.receive( deck.deal() )
Deal ==
    /\ calls < MaxOps
    /\ LET d == deal(deck)
           r == receive(hand, d.card)
       IN  /\ deck' = d.deck
           /\ hand' = IF d.err = "none" /\ r.err = "none" THEN r.cards ELSE hand
           /\ last' = Last("deal", IF d.err # "none" THEN d.err ELSE r.err)
    /\ DeckFrame

\* deck.deal_to_pile( count, hand )
DealToPile ==
    /\ calls < MaxOps
    /\ \E count \in DealCounts :
           LET r == deal_to_pile(deck, count, hand)
           IN  /\ deck' = r.deck
               /\ hand' = r.pile
               /\ last' = [Last("deal_to_pile", r.err) EXCEPT !.k = count]
    /\ DeckFrame

\* hand = deck.deal_pile( count ): hand is bound to the new Pile only if
\* the call returns
DealPile ==
    /\ calls < MaxOps
    /\ \E count \in DealCounts :
           LET r == deal_pile(deck, count)
           IN  /\ deck' = r.deck
               /\ hand' = IF r.err = "none" THEN r.pile ELSE hand
               /\ last' = [Last("deal_pile", r.err) EXCEPT !.k = count]
    /\ DeckFrame

\* deck.shuffle( times )
Shuffle ==
    /\ calls < MaxOps
    /\ \E times \in 1 .. MaxTimes, seed \in 1 .. NumSeeds :
           LET r == shuffle(deck, times, seed)
           IN  /\ deck' = r.deck
               /\ last' = Last("shuffle", r.err)
    /\ UNCHANGED hand
    /\ DeckFrame

\* deck.cut( cards_to_take, minimum_cut ) with minimum_cut >= 1; without
\* cards_to_take the generator draws rnd from 0 .. middle_of_the_pack
Cut ==
    /\ calls < MaxOps
    /\ \E minimum_cut \in {1, MaxMinimumCut} :
           LET middle_of_the_pack == cards_left(deck) - (2 * minimum_cut)
           IN  \E cards_to_take \in
                      {[none |-> TRUE, n |-> rnd] : rnd \in {0, Max(0, middle_of_the_pack)}}
                      \cup {[none |-> FALSE, n |-> k] :
                               k \in {minimum_cut - 1, minimum_cut}} :
                   LET r == cut(deck, cards_to_take, minimum_cut, cards_to_take.n)
                   IN  /\ deck' = r.deck
                       /\ last' = Last("cut", r.err)
    /\ UNCHANGED hand
    /\ DeckFrame

\* deck.put_back_card( card ): the card is taken off the hand
\* ("removed"), is the top of the hand and stays there ("kept"), or is a
\* Card of some other Deck ("foreign")
PutBackCard ==
    /\ calls < MaxOps
    /\ \E choice \in {"removed", "kept", "foreign"} :
           LET t == remove(hand)
               r == put_back_card(deck, t.card, choice # "foreign")
           IN  IF t.err # "none"
               THEN /\ deck' = deck
                    /\ hand' = hand
                    /\ last' = Last("put_back_card", t.err)
               ELSE /\ deck' = r.deck
                    /\ hand' = IF choice = "removed" THEN t.cards ELSE hand
                    /\ last' = Last("put_back_card", r.err)
    /\ DeckFrame

\* deck.put_back_pile( hand )
PutBackPile ==
    /\ calls < MaxOps
    /\ LET r == put_back_pile(deck, hand)
       IN  /\ deck' = r.deck
           /\ hand' = r.pile
           /\ last' = Last("put_back_pile", r.err)
    /\ DeckFrame

NextDeck ==
    \/ Deal
    \/ DealToPile
    \/ DealPile
    \/ Shuffle
    \/ Cut
    \/ PutBackCard
    \/ PutBackPile

SpecDeck == InitDeck /\ [][NextDeck]_vars

(* ---------------------------- can_play_to alone ------------------------- *)
\* the card of natural rank n (Ace 1 .. King 13) of the suit numbered s
SuitCard(s, n) == (s * SuitSize) + (IF n = 1 THEN SuitSize - 1 ELSE n - 2)

\* a foundation of suit s holding h cards, the top one first: move only
\* ever puts a card on a foundation that can_play_to accepted, so the
\* stack runs from the Ace at the bottom up in natural rank
FoundationStack(s, h) == [k \in 1 .. h |-> SuitCard(s, h - k + 1)]

\* the piles can_play_to is asked about: a tableau column, which is empty
\* or shows a top card over at most one other card, and the foundation of
\* each suit at each height
ProbedPiles ==
    {[dest |-> <<>>, flag |-> "T"]}
    \cup {[dest |-> <<t>>, flag |-> "T"] : t \in Cards}
    \cup {[dest |-> <<t[1], t[2]>>, flag |-> "T"] :
             t \in {x \in Cards \X Cards : x[1] # x[2]}}
    \cup {[dest |-> FoundationStack(sh[1], sh[2]), flag |-> initials[sh[1] + 1]] :
             sh \in (0 .. 3) \X (0 .. SuitSize)}

InitCanPlay ==
    /\ deck = NewDeck
    /\ hand = <<>>
    /\ calls = 0
    /\ aces = [s \in 0 .. 3 |-> <<>>]
    /\ tableau = [p \in 0 .. (TableauCount - 1) |-> <<>>]
    /\ pack = <<>>
    /\ faceup_count = [p \in 0 .. (TableauCount - 1) |-> 0]
    /\ last = Last("init", "none")
    /\ \E card \in Cards, pile \in ProbedPiles :
           /\ card \notin SeqToSet(pile.dest)
           /\ probe = [card |-> card, dest |-> pile.dest, flag |-> pile.flag,
                       made |-> FALSE, result |-> FALSE]

\* self.can_play_to( card, dest )
CanPlayTo ==
    /\ ~probe.made
    /\ probe' = [probe EXCEPT !.made = TRUE,
                              !.result = can_play_to(probe.card, probe.dest, probe.flag)]
    /\ last' = Last("can_play_to", "none")
    /\ UNCHANGED <<deck, hand, calls, aces, tableau, pack, faceup_count>>

NextCanPlay == CanPlayTo

SpecCanPlay == InitCanPlay /\ [][NextCanPlay]_vars

(* ---------------------------- properties -------------------------------- *)
GameVars == <<deck, aces, tableau, pack, faceup_count>>

\* the cards of every pile of the game, one pile after the other
PileCards ==
    aces[0] \o aces[1] \o aces[2] \o aces[3]
    \o tableau[0] \o tableau[1] \o tableau[2] \o tableau[3]
    \o tableau[4] \o tableau[5] \o tableau[6]
    \o pack

\* the face-down cards of a column: those under its faceup_count top cards
FaceDown(cards, count) == SubSeq(cards, count + 1, Len(cards))

\* the number of the column a move took its cards from, -1 for the pack
SourceColumn == IF last.source \in SeqToSet(TableauLetters)
                THEN index(TableauLetters, last.source) ELSE -1

\* C1: whatever calls are made on a Deck, failing ones included, _access
\* stays a permutation of the 52 positions and _top stays in 0 .. 52.
C1_AccessIsPermutation ==
    /\ Len(deck.access) = DeckSize
    /\ SeqToSet(deck.access) = Cards
    /\ 0 <= deck.top
    /\ deck.top <= DeckSize

\* put_back_pile has just failed half way on a card that was already back
\* in the deck, with other cards still dealt
C1_Witness ==
    /\ last.op = "put_back_pile"
    /\ last.err = "MismatchedDeckError"
    /\ deck.top > 0
    /\ deck.access # NewDeck.access

\* C2: in every state of a game the foundations, the columns, the pack and
\* the undealt part of the deck hold 52 cards between them, every card in
\* exactly one of those places, and the undealt part holds exactly the
\* cards that are in no pile.
C2_CardsConserved ==
    /\ Len(PileCards) + cards_left(deck) = DeckSize
    /\ NoDuplicates(PileCards \o undealt(deck))
    /\ SeqToSet(PileCards \o undealt(deck)) = Cards
    /\ SeqToSet(undealt(deck)) = Cards \ SeqToSet(PileCards)
    /\ SeqToSet(dealt(deck)) = SeqToSet(PileCards)

\* a move has just been carried out while cards lie on a foundation, in
\* the pack and in the deck
C2_Witness ==
    /\ last.op = "move"
    /\ last.err = "none"
    /\ \E s \in 0 .. 3 : Len(aces[s]) > 0
    /\ Len(pack) > 0
    /\ cards_left(deck) > 0

\* C3: for every column faceup_count is at most the column's size, at
\* least 1 when the column holds a card, and 0 exactly when it is empty.
C3_FaceupCountInRange ==
    \A i \in 0 .. (TableauCount - 1) :
        /\ faceup_count[i] <= Len(tableau[i])
        /\ Len(tableau[i]) > 0 => faceup_count[i] >= 1
        /\ faceup_count[i] = 0 <=> Len(tableau[i]) = 0

\* a move has left one column empty with count 0, a run lies face up on
\* another, and a third still covers face-down cards
C3_Witness ==
    /\ last.op = "move"
    /\ last.err = "none"
    /\ \E i, j, k \in 0 .. (TableauCount - 1) :
           /\ Len(tableau[i]) = 0
           /\ faceup_count[i] = 0
           /\ faceup_count[j] >= 2
           /\ Len(tableau[k]) > faceup_count[k]

\* a step of a command of the game, as opposed to the deal of a new game
CommandStep == last'.op \in {"move", "turn_the_deck"}

\* C4: a command never takes a face-down card off a column: the cards that
\* leave a column are its top ones and no more of them than faceup_count;
\* and the face-down cards of a column stay the same cards in the same
\* order, except that when none is left face up the count is reset to 1
\* and the topmost of them is turned up.
C4_FaceDownUntouched ==
    [][CommandStep => \A i \in 0 .. (TableauCount - 1) :
           LET was == Len(tableau[i])
               is == Len(tableau'[i])
               down == FaceDown(tableau[i], faceup_count[i])
           IN  /\ is < was =>
                      /\ was - is <= faceup_count[i]
                      /\ tableau'[i] = SubSeq(tableau[i], was - is + 1, was)
               /\ \/ FaceDown(tableau'[i], faceup_count'[i]) = down
                  \/ /\ Len(down) > 0
                     /\ tableau'[i] = down
                     /\ faceup_count'[i] = 1]_vars

\* a run of two or more cards has just left a column and the topmost of
\* its face-down cards was turned up, others staying face down
C4_Witness ==
    /\ last.op = "move"
    /\ last.err = "none"
    /\ last.k >= 2
    /\ SourceColumn >= 0
    /\ faceup_count[SourceColumn] = 1
    /\ Len(tableau[SourceColumn]) >= 2

\* the steps of turn_the_deck, by what the call finds
TurnStep == last'.op = "turn_the_deck"
RecycleStep == TurnStep /\ cards_left(deck) = 0 /\ Len(pack) > 0

\* C5 as the code has it: turn_the_deck called with the deck exhausted
\* and n >= 1 cards in the pack puts the turned-over pack back in the
\* deck and goes on to deal in the same call: it ends with the first
\* min(3, n) cards ever dealt to the pack back in the pack, the last dealt
\* of them on top, and the other n - min(3, n) undealt in their old order.
C5_RecycleThenDeal ==
    [][RecycleStep =>
           LET n == Len(pack)
               k == Min(TurnSize, n)
               order == Reverse(pack)
           IN  /\ pack' = Reverse(SubSeq(order, 1, k))
               /\ undealt(deck') = SubSeq(order, k + 1, n)
               /\ cards_left(deck') = n - k]_vars

\* the deck was exhausted with more than three cards in the pack, and the
\* call has left three of them in the pack and the others undealt
C5_Witness ==
    /\ last.op = "turn_the_deck"
    /\ last.u = 0
    /\ last.n > TurnSize
    /\ Len(pack) = TurnSize
    /\ cards_left(deck) = last.n - TurnSize

\* C5 as stated: that call ends with the pack empty and all its former
\* cards undealt, no card being dealt during it.
C5_RecycleWithoutDeal ==
    [][RecycleStep =>
           /\ pack' = <<>>
           /\ SeqToSet(pack) \subseteq SeqToSet(undealt(deck'))
           /\ cards_left(deck') = Len(pack)]_vars

\* C6: when the pack is recycled its cards come off the deck in the order
\* in which they were first dealt to the pack: those dealt again by the
\* call, first dealt undermost, followed by the undealt ones are the old
\* pack read from its bottom up.
C6_RecycleKeepsOrder ==
    [][RecycleStep =>
           Reverse(pack') \o undealt(deck') = Reverse(pack)]_vars

\* a pack of four or more cards, not a multiple of three, was recycled
C6_Witness ==
    /\ last.op = "turn_the_deck"
    /\ last.u = 0
    /\ last.n >= 4
    /\ last.n % TurnSize # 0
    /\ Len(pack) + cards_left(deck) = last.n

\* C7: turn_the_deck with u >= 1 cards undealt moves exactly min(3, u) of
\* them to the pack in deal order, each on top of the one before; with
\* u = 2 it moves exactly 2 and exhausts the deck; with deck and pack both
\* empty it changes nothing.
C7_TurnDealsUpToThree ==
    [][TurnStep =>
           LET u == cards_left(deck)
               k == Min(TurnSize, u)
           IN  /\ u >= 1 =>
                      /\ pack' = Reverse(SubSeq(undealt(deck), 1, k)) \o pack
                      /\ undealt(deck') = SubSeq(undealt(deck), k + 1, u)
                      /\ deck'.top = deck.top + k
                      /\ UNCHANGED <<aces, tableau, faceup_count>>
               /\ u = 2 =>
                      /\ Len(pack') = Len(pack) + 2
                      /\ cards_left(deck') = 0
               /\ (u = 0 /\ Len(pack) = 0) => UNCHANGED GameVars]_vars

\* two cards were undealt, and the call dealt both onto a pack that held
\* cards already
C7_Witness ==
    /\ last.op = "turn_the_deck"
    /\ last.u = 2
    /\ last.n > 0
    /\ last.k = 2
    /\ cards_left(deck) = 0
    /\ Len(pack) = last.n + 2

\* C8: a move that fails with "No cards in source", "Source and
\* destination are the same" or "Invalid move" leaves the foundations, the
\* columns, the pack, the deck and the face-up counts as they were.
C8_FailedMoveChangesNothing ==
    [][(/\ last'.op = "move"
        /\ last'.err \in {"No cards in source",
                          "Source and destination are the same",
                          "Invalid move"})
           => UNCHANGED GameVars]_vars

\* an invalid move was refused in the middle of a game
C8_Witness ==
    /\ last.op = "move"
    /\ last.err = "Invalid move"
    /\ Len(pack) > 0
    /\ \E s \in 0 .. 3 : Len(aces[s]) > 0

\* the rules as the game states them, read off a card's position: the
\* suits lie 13 apart in the order Clubs, Diamonds, Hearts, Spades, and
\* within a suit the deuce comes first and the Ace last
IsRed(card) == (card \div SuitSize) \in {1, 2}
AceHighRank(card) == (card % SuitSize) + 2
NaturalRank(card) == IF card % SuitSize = SuitSize - 1 THEN 1 ELSE (card % SuitSize) + 2
SuitLetter(card) == <<"C", "D", "H", "S">>[(card \div SuitSize) + 1]

\* C9: can_play_to(card, column) is true exactly when the column is not
\* empty, the card's colour differs from that of the column's top card and
\* its rank, Ace high, is one less than the top card's; or the column is
\* empty and the card is a King.
C9_TableauRule ==
    (probe.made /\ probe.flag = "T") =>
        (probe.result <=>
             \/ /\ Len(probe.dest) > 0
                /\ IsRed(probe.card) # IsRed(probe.dest[1])
                /\ AceHighRank(probe.card) = AceHighRank(probe.dest[1]) - 1
             \/ /\ Len(probe.dest) = 0
                /\ AceHighRank(probe.card) = rK)

\* the red Queen of Hearts was accepted on the black King of Spades, which
\* lies on another card
C9_Witness ==
    /\ probe.made
    /\ probe.flag = "T"
    /\ probe.card = SuitCard(2, 12)
    /\ Len(probe.dest) = 2
    /\ probe.dest[1] = SuitCard(3, 13)
    /\ probe.result

\* C10: can_play_to(card, foundation) is true exactly when the foundation
\* is not empty, the card is of the foundation's suit and its natural rank
\* (Ace 1 .. King 13) is one more than the top card's; or the foundation
\* is empty and the card is the Ace of its suit.  So the Ace of Diamonds
\* is accepted on the empty Diamond foundation and the 3 of Diamonds is
\* refused on the Diamond foundation that holds the Ace alone.
C10_FoundationRule ==
    (probe.made /\ probe.flag # "T") =>
        /\ probe.result <=>
               \/ /\ Len(probe.dest) > 0
                  /\ SuitLetter(probe.card) = probe.flag
                  /\ NaturalRank(probe.card) = NaturalRank(probe.dest[1]) + 1
               \/ /\ Len(probe.dest) = 0
                  /\ SuitLetter(probe.card) = probe.flag
                  /\ NaturalRank(probe.card) = 1
        /\ (probe.flag = "D" /\ probe.dest = <<>> /\ probe.card = SuitCard(1, 1))
               => probe.result
        /\ (probe.flag = "D" /\ probe.dest = <<SuitCard(1, 1)>>
                /\ probe.card = SuitCard(1, 3))
               => ~probe.result

\* the 3 of Diamonds was refused on the Diamond foundation holding the Ace
C10_Witness ==
    /\ probe.made
    /\ probe.flag = "D"
    /\ probe.dest = <<SuitCard(1, 1)>>
    /\ probe.card = SuitCard(1, 3)
    /\ ~probe.result

\* the pile a letter of a move command names, among the foundations A,
\* the columns T and the pack P, and the flag of that pile
PileAt(A, T, P, letter) ==
    IF letter = "P" THEN P
    ELSE IF letter \in SeqToSet(initials) THEN A[index(initials, letter)]
    ELSE T[index(TableauLetters, letter)]
FlagAt(letter) == IF letter \in SeqToSet(TableauLetters) THEN "T" ELSE letter
IsColumn(letter) == letter \in SeqToSet(TableauLetters)

\* the number of cards the rules let a move from a non-empty source carry
\* to another pile, 0 if they allow none
CardsToMove(source_letter, dest_letter) ==
    LET source == PileAt(aces, tableau, pack, source_letter)
        dest == PileAt(aces, tableau, pack, dest_letter)
        run == faceup_count[index(TableauLetters, source_letter)]
    IN  IF /\ IsColumn(source_letter)
           /\ IsColumn(dest_letter)
           /\ can_play_to(source[run], dest, FlagAt(dest_letter))
        THEN run
        ELSE IF can_play_to(source[1], dest, FlagAt(dest_letter)) THEN 1 ELSE 0

\* C11: a move between two columns carries the whole face-up run of the
\* source if its deepest face-up card is playable on the destination,
\* else the top card alone if that one is playable, else it fails with
\* "Invalid move"; a move from the pack or to a foundation carries the top
\* card alone, and only if it is playable.  The k cards carried leave the
\* top of the source and lie on top of the destination in the order they
\* had in the source.  Stated of every command given in a reachable state
\* that names a non-empty source and another pile.
C11_CardsMoved ==
    \A source_letter \in SourceLetters, dest_letter \in DestLetters :
        LET k == CardsToMove(source_letter, dest_letter)
            source == PileAt(aces, tableau, pack, source_letter)
            dest == PileAt(aces, tableau, pack, dest_letter)
            r == move(Game, source_letter, dest_letter)
        IN  (Len(source) > 0 /\ source_letter # dest_letter) =>
                IF k = 0
                THEN r.err = "Invalid move"
                ELSE /\ r.err = "none"
                     /\ PileAt(r.game.aces, r.game.tableau, r.game.pack, source_letter)
                            = SubSeq(source, k + 1, Len(source))
                     /\ PileAt(r.game.aces, r.game.tableau, r.game.pack, dest_letter)
                            = SubSeq(source, 1, k) \o dest

\* a run of two or more cards has just been carried from one column onto
\* the cards of another
C11_Witness ==
    /\ last.op = "move"
    /\ last.err = "none"
    /\ IsColumn(last.source)
    /\ IsColumn(last.dest)
    /\ last.k >= 2
    /\ Len(PileAt(aces, tableau, pack, last.dest)) > last.k

\* C12: after a successful move of k cards the face-up count of a
\* destination column is its old value plus k; that of a source column is
\* its old value minus k, or 1 when that is 0 and the column still holds
\* cards; the counts of all other columns are as before.
C12_FaceupCountUpdated ==
    [][(last'.op = "move" /\ last'.err = "none") =>
           \A i \in 0 .. (TableauCount - 1) :
               faceup_count'[i] =
                   IF IsColumn(last'.dest) /\ i = index(TableauLetters, last'.dest)
                   THEN faceup_count[i] + last'.k
                   ELSE IF IsColumn(last'.source)
                           /\ i = index(TableauLetters, last'.source)
                   THEN IF faceup_count[i] - last'.k = 0 /\ Len(tableau'[i]) > 0
                        THEN 1
                        ELSE faceup_count[i] - last'.k
                   ELSE faceup_count[i]]_vars

\* the only face-up card of a column has just gone to another column and
\* the card under it was turned up, while a run of two lies on the other
C12_Witness ==
    /\ last.op = "move"
    /\ last.err = "none"
    /\ IsColumn(last.source)
    /\ IsColumn(last.dest)
    /\ last.k = 1
    /\ Len(tableau[SourceColumn]) >= 1
    /\ faceup_count[SourceColumn] = 1
    /\ faceup_count[index(TableauLetters, last.dest)] = 2

\* C13: in every reachable game state game_over() is true if and only if
\* the four foundations hold 52 cards between them, which is exactly when
\* every column, the pack and the deck are empty.
C13_GameOverIffAllOnFoundations ==
    LET held == Len(aces[0]) + Len(aces[1]) + Len(aces[2]) + Len(aces[3])
        cleared == /\ \A i \in 0 .. (TableauCount - 1) : Len(tableau[i]) = 0
                   /\ Len(pack) = 0
                   /\ cards_left(deck) = 0
    IN  /\ game_over(Game) <=> held = DeckSize
        /\ held = DeckSize <=> cleared

\* the last card has just been played to its foundation
C13_Witness ==
    /\ last.op = "move"
    /\ last.err = "none"
    /\ last.dest \in SeqToSet(initials)
    /\ game_over(Game)
    /\ \A s \in 0 .. 3 : Len(aces[s]) = SuitSize

\* C14: right after a game is constructed column i (i = 0 .. 6) holds
\* exactly i + 1 cards, every face-up count is 1, the four foundations and
\* the pack are empty, and 24 cards are undealt.
C14_NewGameLayout ==
    last.op = "init" =>
        /\ \A i \in 0 .. (TableauCount - 1) :
               /\ Len(tableau[i]) = i + 1
               /\ faceup_count[i] = 1
        /\ \A s \in 0 .. 3 : Len(aces[s]) = 0
        /\ Len(pack) = 0
        /\ cards_left(deck) = 24

\* a game as constructed: nothing played yet, the seventh column holding
\* seven of the shuffled cards
C14_Witness ==
    /\ last.op = "init"
    /\ Len(tableau[TableauCount - 1]) = TableauCount
    /\ deck.top = DeckSize - 24
    /\ deck.access # NewDeck.access

(* ---------------------------- dealing a Deck out ------------------------ *)
\* the loop `cd = D1.deal(); n = D1.put_back_card( cd )`, run `times`
\* times: the Deck it leaves and the values of n, in order. One turn is
\* the loop's body; more turns are the first half of them and, unless one
\* of those raised, the rest.
RECURSIVE deal_put_back_loop(_, _, _)
deal_put_back_loop(D, times, counts) ==
    IF times <= 0
    THEN [err |-> "none", deck |-> D, counts |-> counts]
    ELSE IF times = 1
    THEN LET d == deal(D)
             r == put_back_card(d.deck, d.card, TRUE)
         IN  IF d.err # "none"
             THEN [err |-> d.err, deck |-> d.deck, counts |-> counts]
             ELSE IF r.err # "none"
             THEN [err |-> r.err, deck |-> r.deck, counts |-> counts]
             ELSE [err |-> "none", deck |-> r.deck,
                   counts |-> Append(counts, cards_left(r.deck))]
    ELSE LET first == deal_put_back_loop(D, times \div 2, counts)
         IN  IF first.err # "none"
             THEN first
             ELSE deal_put_back_loop(first.deck, times - (times \div 2), first.counts)

\* D = Deck(), left as it is or shuffled once, and an empty Pile
InitDealing ==
    /\ deck \in {NewDeck} \cup {shuffle(NewDeck, 1, seed).deck : seed \in 1 .. NumSeeds}
    /\ hand = <<>>
    /\ calls = 0
    /\ aces = [s \in 0 .. 3 |-> <<>>]
    /\ tableau = [p \in 0 .. (TableauCount - 1) |-> <<>>]
    /\ pack = <<>>
    /\ faceup_count = [p \in 0 .. (TableauCount - 1) |-> 0]
    /\ probe = NoProbe
    /\ last = Last("init", "none")

\* hand.receive( D.deal() ), as often as the caller likes
DealNext ==
    /\ LET d == deal(deck)
           r == receive(hand, d.card)
       IN  /\ deck' = d.deck
           /\ hand' = IF d.err = "none" /\ r.err = "none" THEN r.cards ELSE hand
           /\ last' = Last("deal", IF d.err # "none" THEN d.err ELSE r.err)
    /\ UNCHANGED <<calls, aces, tableau, pack, faceup_count, probe>>

\* for j in range(52): cd = D.deal(); n = D.put_back_card( cd ), on a Deck
\* from which nothing has been dealt
DealAndPutBack ==
    /\ deck.top = 0
    /\ LET r == deal_put_back_loop(deck, DeckSize, <<>>)
       IN  /\ deck' = r.deck
           /\ last' = [Last("deal_put_back", r.err) EXCEPT !.k = Len(r.counts)]
    /\ UNCHANGED <<hand, calls, aces, tableau, pack, faceup_count, probe>>

NextDealing == DealNext \/ DealAndPutBack

SpecDealing == InitDealing /\ [][NextDealing]_vars

\* C15: a Deck as constructed, neither shuffled nor cut, deals the cards
\* at positions 0, 1, .. 51 in that order over 52 calls of deal(): the call
\* made with t cards dealt yields position t, on top of all dealt before;
\* the 53rd call raises EmptyDeckError and leaves the deck as it was.
C15_FreshDeckDealsInOrder ==
    [][(last'.op = "deal" /\ deck.access = NewDeck.access) =>
           /\ hand = [k \in 1 .. deck.top |-> deck.top - k]
           /\ IF deck.top < DeckSize
              THEN /\ last'.err = "none"
                   /\ hand' = <<deck.top>> \o hand
                   /\ deck' = [deck EXCEPT !.top = deck.top + 1]
              ELSE /\ last'.err = "EmptyDeckError"
                   /\ deck' = deck
                   /\ hand' = hand]_vars

\* the 53rd deal from the unshuffled Deck has failed, the 52 cards lying
\* dealt with position 51 on top and position 0 at the bottom
C15_Witness ==
    /\ last.op = "deal"
    /\ last.err = "EmptyDeckError"
    /\ deck.access = NewDeck.access
    /\ deck.top = DeckSize
    /\ hand = [k \in 1 .. DeckSize |-> DeckSize - k]

\* C19: on a deck with all 52 cards undealt, dealing a card and putting
\* it straight back, 52 times over, reports 52 undealt cards after every
\* put-back and leaves the deck with the deal order it started with.
C19_DealPutBackRoundTrip ==
    [][last'.op = "deal_put_back" =>
           /\ last'.err = "none"
           /\ deal_put_back_loop(deck, DeckSize, <<>>).counts
                  = [j \in 1 .. DeckSize |-> DeckSize]
           /\ undealt(deck') = undealt(deck)
           /\ deck' = deck]_vars

\* the 52 round trips have been made on a shuffled Deck
C19_Witness ==
    /\ last.op = "deal_put_back"
    /\ last.err = "none"
    /\ last.k = DeckSize
    /\ deck.top = 0
    /\ deck.access # NewDeck.access

(* ---------------------------- one call on a Deck in use ----------------- *)
\* D = Deck(), left as it is or shuffled once, with its first `count`
\* cards dealt to a Pile
DeckInUse(count) ==
    {deal_pile(D, count) :
         D \in {NewDeck} \cup {shuffle(NewDeck, 1, seed).deck : seed \in 1 .. NumSeeds}}

InitCut ==
    /\ \E count \in 0 .. DeckSize :
           \E r \in DeckInUse(count) :
               /\ deck = r.deck
               /\ hand = r.pile
    /\ calls = 0
    /\ aces = [s \in 0 .. 3 |-> <<>>]
    /\ tableau = [p \in 0 .. (TableauCount - 1) |-> <<>>]
    /\ pack = <<>>
    /\ faceup_count = [p \in 0 .. (TableauCount - 1) |-> 0]
    /\ probe = NoProbe
    /\ last = Last("init", "none")

CutFrame == UNCHANGED <<hand, calls, aces, tableau, pack, faceup_count, probe>>

\* D.cut( minimum_cut = m ): the generator draws rnd from
\* 0 .. middle_of_the_pack; last.k is the number of cards taken
CutDefault ==
    /\ last.op = "init"
    /\ \E minimum_cut \in 1 .. MaxMinimumCut :
           \E rnd \in 0 .. Max(0, cards_left(deck) - (2 * minimum_cut)) :
               LET r == cut(deck, [none |-> TRUE, n |-> 0], minimum_cut, rnd)
               IN  /\ deck' = r.deck
                   /\ last' = [Last("cut()", r.err) EXCEPT
                                  !.u = cards_left(deck), !.n = minimum_cut,
                                  !.k = IF r.err = "none" THEN minimum_cut + rnd ELSE 0]
    /\ CutFrame

\* D.cut( cards_to_take = n, minimum_cut = m )
CutExplicit ==
    /\ last.op = "init"
    /\ \E minimum_cut \in 1 .. MaxMinimumCut :
           \E n \in 0 .. (cards_left(deck) + 1) :
               LET r == cut(deck, [none |-> FALSE, n |-> n], minimum_cut, 0)
               IN  /\ deck' = r.deck
                   /\ last' = [Last("cut(n)", r.err) EXCEPT
                                  !.u = cards_left(deck), !.n = minimum_cut, !.k = n]
    /\ CutFrame

NextCut == CutDefault \/ CutExplicit

SpecCut == InitCut /\ [][NextCut]_vars

CutStep == last'.op \in {"cut()", "cut(n)"}

\* C16: a cut that succeeds in taking n cards leaves _top and the dealt
\* prefix of _access as they were and rotates the undealt cards: from the
\* deal order c1 .. cm to c(n+1) .. cm followed by c1 .. cn, so that their
\* number and their set are unchanged; cut(13) on a Deck as constructed
\* makes position 13, the 2 of Diamonds, the next card dealt.
C16_CutRotatesUndealt ==
    [][(CutStep /\ last'.err = "none") =>
           LET n == last'.k
               m == cards_left(deck)
           IN  /\ deck'.top = deck.top
               /\ dealt(deck') = dealt(deck)
               /\ undealt(deck') = SubSeq(undealt(deck), n + 1, m)
                                   \o SubSeq(undealt(deck), 1, n)
               /\ cards_left(deck') = m
               /\ SeqToSet(undealt(deck')) = SeqToSet(undealt(deck))
               /\ (deck = NewDeck /\ n = SuitSize) =>
                      /\ deal(deck').card = SuitSize
                      /\ deal(deck').card = SuitCard(1, 2)]_vars

\* seven of the ten undealt cards of a shuffled deck were cut to the
\* bottom, 42 cards lying dealt
C16_Witness ==
    /\ last.op = "cut(n)"
    /\ last.err = "none"
    /\ last.u = 10
    /\ last.k = 7
    /\ deck.top = 42
    /\ SeqToSet(dealt(deck)) # 0 .. 41

\* C17: cut fails, leaving _access and _top as they were, exactly when
\* fewer than 2 * minimum_cut cards are undealt, or cards_to_take is given
\* and is below minimum_cut or above the undealt count less minimum_cut;
\* otherwise it succeeds.  With 10 undealt and minimum 5 it succeeds, with
\* 9 and 5 it fails, with 9 and 4 it succeeds by default and fails for
\* cards_to_take = 6.
C17_CutFailsExactlyWhenShallow ==
    [][CutStep =>
           LET u == cards_left(deck)
               m == last'.n
               shallow == \/ u < 2 * m
                          \/ /\ last'.op = "cut(n)"
                             /\ (last'.k < m \/ last'.k > u - m)
           IN  /\ last'.err # "none" <=> shallow
               /\ last'.err # "none" => deck' = deck
               /\ (last'.op = "cut()" /\ u = 10 /\ m = 5) => last'.err = "none"
               /\ (last'.op = "cut()" /\ u = 9 /\ m = 5) => last'.err # "none"
               /\ (last'.op = "cut()" /\ u = 9 /\ m = 4) => last'.err = "none"
               /\ (last'.op = "cut(n)" /\ u = 9 /\ m = 4 /\ last'.k = 6)
                      => last'.err # "none"]_vars

\* nine cards being undealt, cut( cards_to_take = 6, minimum_cut = 4 ) has
\* failed
C17_Witness ==
    /\ last.op = "cut(n)"
    /\ last.err = "EmptyDeckError"
    /\ last.u = 9
    /\ last.n = 4
    /\ last.k = 6
    /\ cards_left(deck) = 9

(* ---------------------------- cards put back one by one ----------------- *)
InitPutBack ==
    /\ \E count \in 0 .. MaxDealt :
           \E r \in DeckInUse(count) :
               /\ deck = r.deck
               /\ hand = r.pile
    /\ calls = 0
    /\ aces = [s \in 0 .. 3 |-> <<>>]
    /\ tableau = [p \in 0 .. (TableauCount - 1) |-> <<>>]
    /\ pack = <<>>
    /\ faceup_count = [p \in 0 .. (TableauCount - 1) |-> 0]
    /\ probe = NoProbe
    /\ last = Last("init", "none")

\* D.put_back_card( C ), C being any Card of this Deck the caller holds a
\* reference to, or the Card at that position of another Deck; last.k is
\* the position of a card that was taken back
ReturnCard ==
    /\ calls < MaxReturns
    /\ \E card \in Cards, own \in BOOLEAN :
           LET r == put_back_card(deck, card, own)
           IN  /\ deck' = r.deck
               /\ last' = IF r.err = "none"
                          THEN [Last("put_back_card", "none") EXCEPT !.k = card]
                          ELSE Last("put_back_card", r.err)
    /\ calls' = calls + 1
    /\ UNCHANGED <<hand, aces, tableau, pack, faceup_count, probe>>

NextPutBack == ReturnCard

SpecPutBack == InitPutBack /\ [][NextPutBack]_vars

\* C18: a put_back_card(c) that succeeds moves _top back by one, so that
\* one more card is undealt, makes c the last card to be dealt and keeps
\* the deal order of the cards that were undealt before it, and the order
\* of the other dealt cards.
C18_PutBackGoesToBottom ==
    [][(last'.op = "put_back_card" /\ last'.err = "none") =>
           LET c == last'.k
           IN  /\ deck'.top = deck.top - 1
               /\ cards_left(deck') = cards_left(deck) + 1
               /\ deck'.access[DeckSize] = c
               /\ undealt(deck') = Append(undealt(deck), c)
               /\ dealt(deck') = SelectSeq(dealt(deck), LAMBDA x : x # c)]_vars

\* of the cards dealt from a shuffled deck one that was not the last
\* dealt has been put back after another: it lies at the bottom of the
\* deck and two cards at least are still dealt
C18_Witness ==
    /\ last.op = "put_back_card"
    /\ last.err = "none"
    /\ calls = MaxReturns
    /\ deck.top >= 2
    /\ deck.top = Len(hand) - MaxReturns
    /\ deck.access[DeckSize] = last.k
    /\ last.k \in SeqToSet(hand)
    /\ last.k # hand[1]
    /\ hand[Len(hand)] # 0

\* C20: put_back_card(c) fails and leaves _access and _top as they were
\* when c is the Card of another Deck and when c's position is among the
\* undealt ones, _access[_top:]; so a card that was put back cannot be
\* put back again before it is dealt again.  Stated of every call that
\* can be made in a reachable state.
C20_PutBackRefused ==
    /\ \A card \in Cards, own \in BOOLEAN :
           (~own \/ card \in SeqToSet(undealt(deck))) =>
               /\ put_back_card(deck, card, own).err = "MismatchedDeckError"
               /\ put_back_card(deck, card, own).deck = deck
    /\ (last.op = "put_back_card" /\ last.err = "none") =>
           /\ put_back_card(deck, last.k, TRUE).err = "MismatchedDeckError"
           /\ put_back_card(deck, last.k, TRUE).deck = deck

\* a card was put back and the call after that was refused, the deck
\* staying as the first call left it
C20_Witness ==
    /\ last.op = "put_back_card"
    /\ last.err = "MismatchedDeckError"
    /\ calls = 2
    /\ deck.top = Len(hand) - 1
    /\ deck.access[DeckSize] \in SeqToSet(hand)

(* ---------------------------- C21 --------------------------------------- *)
\* C21: a call of shuffle, whatever the number of passes, leaves _top, the
\* dealt prefix _access[:_top] and the set of undealt positions as they
\* were, so that only the order of the undealt slice can change; with
\* exactly one undealt card the deck is left as it was; with _top = 52 the
\* call fails with EmptyDeckError and the deck is left as it was, and it
\* fails in no other case.
ShuffleStep == last'.op = "shuffle"

C21_ShuffleFrame ==
    [][ShuffleStep =>
          /\ deck'.top = deck.top
          /\ dealt(deck') = dealt(deck)
          /\ Len(deck'.access) = Len(deck.access)
          /\ SeqToSet(undealt(deck')) = SeqToSet(undealt(deck))
          /\ (cards_left(deck) = 1 => (deck' = deck /\ last'.err = "none"))
          /\ (deck.top = DeckSize
                  => (deck' = deck /\ last'.err = "EmptyDeckError"))
          /\ (last'.err # "none" => deck.top = DeckSize)
          /\ hand' = hand]_vars

\* a deck with one card dealt has just been shuffled and its undealt cards
\* no longer lie in the order of a new deck
C21_Witness ==
    /\ calls = 2
    /\ last.op = "shuffle"
    /\ last.err = "none"
    /\ deck.top = 1
    /\ dealt(deck) = <<0>>
    /\ undealt(deck) # [k \in 1 .. (DeckSize - 1) |-> k]

(* ---------------------------- C22 --------------------------------------- *)
\* C22: deal_to_pile(n, pile) and deal_pile(n) have no partial effect: a
\* call that fails leaves the deck's _top and the receiving pile exactly as
\* they were, and a call that succeeds has moved exactly n cards from the
\* deck to the pile, the last card dealt being the pile's top.
\* (The count asked for is last.k; deal_pile receives in a new Pile.)
DealManyStep == last'.op \in {"deal_to_pile", "deal_pile"}

C22_NoPartialEffect ==
    [][DealManyStep =>
          LET n == last'.k
              before == IF last'.op = "deal_pile" THEN <<>> ELSE hand
          IN  IF last'.err # "none"
              THEN deck' = deck /\ hand' = hand
              ELSE /\ deck'.top = deck.top + n
                   /\ deck'.access = deck.access
                   /\ hand' = Reverse(SubSeq(deck.access, deck.top + 1, deck.top + n))
                              \o before]_vars

\* a deal_to_pile has failed on a card the pile already held, after
\* cards had been dealt from the deck to the pile
C22_Witness ==
    /\ last.op = "deal_to_pile"
    /\ last.err = "PilingError"
    /\ deck.top > 1
    /\ Len(hand) > 1
    /\ \E k \in 1 .. deck.top : \E j \in 2 .. Len(hand) : deck.access[k] = hand[j]

\* what does hold of the code: a call refused for want of cards changes
\* nothing, and a call that returns has moved exactly n cards
C22_RefusedBeforeDealing ==
    [][DealManyStep =>
          LET n == last'.k
              before == IF last'.op = "deal_pile" THEN <<>> ELSE hand
          IN  /\ (n > cards_left(deck) <=> last'.err = "EmptyDeckError")
              /\ (last'.err = "EmptyDeckError" => (deck' = deck /\ hand' = hand))
              /\ (last'.err = "none" =>
                      /\ deck'.top = deck.top + n
                      /\ deck'.access = deck.access
                      /\ hand' = Reverse(SubSeq(deck.access, deck.top + 1, deck.top + n))
                                 \o before)]_vars

(* ---------------------------- two Piles --------------------------------- *)
\* P0 = Pile(); P1 = Pile(): hand is P0 and pack is P1, driven by a caller
\* holding MaxPileCards Cards (of one Deck or of several, a Pile telling
\* cards apart by position only) who may make any call of class Pile on
\* either; last.source names the pile the call is made on, last.k is the
\* card or the count passed or the card returned, last.n the size of the
\* pile passed to receive_pile.
MaxPileCards == 3

\* the positions of the caller's cards, one of each suit: the deuce of
\* Clubs, the three of Diamonds, and so on
PileCardSet == {(s * SuitSize) + s : s \in 0 .. (MaxPileCards - 1)}

PileNames == {"P0", "P1"}

PileNamed(name) == IF name = "P0" THEN hand ELSE pack
OtherPile(name) == IF name = "P0" THEN pack ELSE hand

\* the two piles after the call: the one it was made on, and the other
SetPiles(name, self_cards, other_cards) ==
    IF name = "P0"
    THEN hand' = self_cards /\ pack' = other_cards
    ELSE pack' = self_cards /\ hand' = other_cards

InitPile ==
    /\ hand = <<>>
    /\ pack = <<>>
    /\ deck = NewDeck
    /\ calls = 0
    /\ aces = [s \in 0 .. 3 |-> <<>>]
    /\ tableau = [p \in 0 .. (TableauCount - 1) |-> <<>>]
    /\ faceup_count = [p \in 0 .. (TableauCount - 1) |-> 0]
    /\ probe = NoProbe
    /\ last = Last("init", "none")

PileFrame == UNCHANGED <<deck, calls, aces, tableau, faceup_count, probe>>

\* self.receive( card )
PileReceive ==
    /\ \E name \in PileNames, card \in PileCardSet :
           LET r == receive(PileNamed(name), card)
           IN  /\ SetPiles(name, r.cards, OtherPile(name))
               /\ last' = [Last("receive", r.err) EXCEPT !.source = name, !.k = card]
    /\ PileFrame

\* self.receive_pile( other )
PileReceivePile ==
    /\ \E name \in PileNames :
           LET r == receive_pile(PileNamed(name), OtherPile(name))
           IN  /\ SetPiles(name, r.cards, r.pile)
               /\ last' = [Last("receive_pile", r.err)
                               EXCEPT !.source = name, !.n = Len(OtherPile(name))]
    /\ PileFrame

\* self.remove(): the card returned is dropped by the caller
PileRemove ==
    /\ \E name \in PileNames :
           LET r == remove(PileNamed(name))
           IN  /\ SetPiles(name, r.cards, OtherPile(name))
               /\ last' = IF r.err = "none"
                          THEN [Last("remove", "none") EXCEPT !.source = name, !.k = r.card]
                          ELSE [Last("remove", r.err) EXCEPT !.source = name]
    /\ PileFrame

\* other = self.remove_pile( cards_to_take ): other is bound to the new
\* Pile only if the call returns
PileRemovePile ==
    /\ \E name \in PileNames :
           \E cards_to_take \in 0 .. (Len(PileNamed(name)) + 1) :
               LET r == remove_pile(PileNamed(name), cards_to_take)
               IN  /\ SetPiles(name, r.cards,
                               IF r.err = "none" THEN r.new_pile ELSE OtherPile(name))
                   /\ last' = [Last("remove_pile", r.err)
                                   EXCEPT !.source = name, !.k = cards_to_take]
    /\ PileFrame

\* self.turn_over()
PileTurnOver ==
    /\ \E name \in PileNames :
           /\ SetPiles(name, turn_over(PileNamed(name)), OtherPile(name))
           /\ last' = [Last("turn_over", "none") EXCEPT !.source = name]
    /\ PileFrame

\* self.sort( reverse )
PileSort ==
    /\ \E name \in PileNames, reverse \in BOOLEAN :
           /\ SetPiles(name, sort(PileNamed(name), reverse), OtherPile(name))
           /\ last' = [Last("sort", "none") EXCEPT !.source = name]
    /\ PileFrame

NextPile ==
    \/ PileReceive
    \/ PileReceivePile
    \/ PileRemove
    \/ PileRemovePile
    \/ PileTurnOver
    \/ PileSort

SpecPile == InitPile /\ [][NextPile]_vars

(* ---------------------------- C23 --------------------------------------- *)
\* C23: whatever calls of receive, receive_pile, remove, remove_pile,
\* turn_over and sort are made, no two cards of one Pile have the same
\* position; receive(card) with a card whose position the pile holds fails
\* with PilingError and leaves the pile as it was, and any other
\* receive(card) returns with the card at index 0 above the former cards.
ReceiveStep == last'.op = "receive"

C23_NoDuplicateCards ==
    /\ [](NoDuplicates(hand) /\ NoDuplicates(pack))
    /\ [][ReceiveStep =>
             LET was == IF last'.source = "P0" THEN hand ELSE pack
                 is == IF last'.source = "P0" THEN hand' ELSE pack'
                 card == last'.k
             IN  IF card \in SeqToSet(was)
                 THEN last'.err = "PilingError" /\ is = was
                 ELSE last'.err = "none" /\ is = <<card>> \o was]_vars

\* a pile of two cards has just refused a card it holds
C23_Witness ==
    /\ last.op = "receive"
    /\ last.err = "PilingError"
    /\ last.source = "P0"
    /\ Len(hand) = 2
    /\ last.k = hand[2]

(* ---------------------------- C24 --------------------------------------- *)
\* C24: remove_pile(n) with 0 <= n <= len(pile) returns a new Pile holding
\* the former top n cards in the same top-to-bottom order and leaves the
\* other cards of the pile in their order; with n > len(pile) it fails with
\* PilingError and the pile is as it was.  remove() fails on an empty pile
\* and on any other pile returns the card at index 0, which leaves the pile.
SelfWas == IF last'.source = "P0" THEN hand ELSE pack
SelfIs == IF last'.source = "P0" THEN hand' ELSE pack'
OtherWas == IF last'.source = "P0" THEN pack ELSE hand
OtherIs == IF last'.source = "P0" THEN pack' ELSE hand'

C24_RemoveTakesFromTop ==
    /\ [][last'.op = "remove_pile" =>
             LET n == last'.k
             IN  IF n <= Len(SelfWas)
                 THEN /\ last'.err = "none"
                      /\ OtherIs = SubSeq(SelfWas, 1, n)
                      /\ SelfIs = SubSeq(SelfWas, n + 1, Len(SelfWas))
                 ELSE /\ last'.err = "PilingError"
                      /\ SelfIs = SelfWas
                      /\ OtherIs = OtherWas]_vars
    /\ [][last'.op = "remove" =>
             IF Len(SelfWas) = 0
             THEN last'.err = "PilingError" /\ SelfIs = SelfWas
             ELSE /\ last'.err = "none"
                  /\ last'.k = SelfWas[1]
                  /\ SelfIs = Tail(SelfWas)]_vars

\* the top two cards of a pile of three have just been removed as a pile
C24_Witness ==
    /\ last.op = "remove_pile"
    /\ last.err = "none"
    /\ last.source = "P0"
    /\ last.k = 2
    /\ Len(pack) = 2
    /\ Len(hand) = 1
    /\ pack[1] # pack[2]

(* ---------------------------- C25 --------------------------------------- *)
\* C25: receive_pile and remove_pile undo each other and keep the order.
\* For piles A and B with no card in common, A.receive_pile(B) leaves B
\* empty and A holding B's former cards, in their order and B's top on
\* top, above A's former cards, and A.remove_pile(len of former B) called
\* next returns B's former cards and leaves A as it first was; and after
\* B = A.remove_pile(n) with n <= len(A), A.receive_pile(B) leaves A as it
\* first was.
NothingInCommon(A, B) == SeqToSet(A) \cap SeqToSet(B) = {}

C25_ReceiveRemoveRoundTrip ==
    /\ [][(last'.op = "receive_pile" /\ NothingInCommon(SelfWas, OtherWas)) =>
             /\ last'.err = "none"
             /\ OtherIs = <<>>
             /\ SelfIs = OtherWas \o SelfWas
             /\ LET u == remove_pile(SelfIs, Len(OtherWas))
                IN  /\ u.err = "none"
                    /\ u.new_pile = OtherWas
                    /\ u.cards = SelfWas]_vars
    /\ [][(last'.op = "remove_pile" /\ last'.err = "none") =>
             LET r == receive_pile(SelfIs, OtherIs)
             IN  /\ r.err = "none"
                 /\ r.cards = SelfWas
                 /\ r.pile = <<>>]_vars

\* a pile of two cards has just been received on a pile of one
C25_Witness ==
    /\ last.op = "receive_pile"
    /\ last.err = "none"
    /\ last.source = "P0"
    /\ last.n = 2
    /\ Len(hand) = 3
    /\ pack = <<>>

(* ---------------------------- C26 --------------------------------------- *)
\* C26: put_back_pile(pile), when every card of the pile was dealt from
\* this deck and is not in its undealt partition, returns with the pile
\* empty and the deck's undealt count greater by the pile's former size;
\* the cards put back are the last cards of the deal order, in the pile's
\* former order from top to bottom, behind the cards that were undealt.
PutBackPileStep == last'.op = "put_back_pile"

C26_PutBackPileEmptiesPile ==
    [][(PutBackPileStep /\ SeqToSet(hand) \subseteq SeqToSet(dealt(deck))) =>
          /\ last'.err = "none"
          /\ hand' = <<>>
          /\ cards_left(deck') = cards_left(deck) + Len(hand)
          /\ undealt(deck') = undealt(deck) \o hand
          /\ SubSeq(deck'.access, DeckSize - Len(hand) + 1, DeckSize) = hand
          /\ SeqToSet(dealt(deck')) = SeqToSet(dealt(deck)) \ SeqToSet(hand)]_vars

\* a hand of half the deck has just been put back on a deck with cards
\* left: its former top card, the last one dealt, comes first among them
C26_Witness ==
    /\ last.op = "put_back_pile"
    /\ last.err = "none"
    /\ hand = <<>>
    /\ deck.top = 0
    /\ deck.access[DeckSize] = 0
    /\ deck.access[HalfDeck + 1] = HalfDeck - 1
    /\ deck.access[1] = HalfDeck

(* ---------------------------- C27 --------------------------------------- *)
\* C27: the natural rank of a card, the one the foundations are built by,
\* is 1 for an Ace and 13 for a King, the deuce to the Queen being
\* numbered 2 to 12 in between.
C27_NaturalRankAceLow ==
    (probe.made /\ probe.flag # "T") =>
        /\ nrank(probe.card) = NaturalRank(probe.card)
        /\ (offset(probe.card) = SuitSize - 1 => nrank(probe.card) = 1)
        /\ (rank(probe.card) = rK => nrank(probe.card) = SuitSize)

\* what does hold of nrank: it numbers the Ace 0 and the deuce to the King
\* 1 to 12, one less than the natural rank throughout, so that the steps
\* of one between neighbours are those of the natural rank
C27_NaturalRankLessOne ==
    (probe.made /\ probe.flag # "T") =>
        /\ nrank(probe.card) = NaturalRank(probe.card) - 1
        /\ nrank(probe.card) \in 0 .. (SuitSize - 1)
        /\ \A c \in SeqToSet(probe.dest) :
               nrank(probe.card) - nrank(c) = NaturalRank(probe.card) - NaturalRank(c)

\* the Ace of Clubs was probed against its foundation and numbered 0
C27_Witness ==
    /\ probe.made
    /\ probe.flag = "C"
    /\ probe.card = SuitCard(0, 1)
    /\ nrank(probe.card) = 0

(* ---------------------------- C28 --------------------------------------- *)
\* C28: receive_pile looks at the whole batch before it moves a card: when
\* A.receive_pile(B) fails with PilingError because a card of B has the
\* position of a card of A, A and B are both exactly as they were before
\* the call, no card having been moved and none lost.
C28_ReceivePileAllOrNothing ==
    [][(last'.op = "receive_pile" /\ last'.err = "PilingError") =>
          (hand' = hand /\ pack' = pack)]_vars

\* a pile of two cards was passed to a pile holding one of them: the call
\* failed, and the pile passed is empty
C28_Witness ==
    /\ last.op = "receive_pile"
    /\ last.err = "PilingError"
    /\ last.source = "P0"
    /\ last.n = 2
    /\ pack = <<>>
    /\ Len(hand) < 3

\* what does hold of the code: the call fails exactly when the piles have
\* a card in common; the pile passed is then empty, and this pile holds,
\* above its former cards, those cards of the other that lay under the
\* lowest card they have in common
C28_ReceivePileStopsMidway ==
    [][last'.op = "receive_pile" =>
          /\ (last'.err = "PilingError" <=> ~NothingInCommon(SelfWas, OtherWas))
          /\ OtherIs = <<>>
          /\ (last'.err = "PilingError" =>
                  LET low == CHOOSE k \in 1 .. Len(OtherWas) :
                                 /\ OtherWas[k] \in SeqToSet(SelfWas)
                                 /\ \A j \in (k + 1) .. Len(OtherWas) :
                                        OtherWas[j] \notin SeqToSet(SelfWas)
                  IN  SelfIs = SubSeq(OtherWas, low + 1, Len(OtherWas)) \o SelfWas)]_vars

(* ---------------------------- C29 --------------------------------------- *)
\* C29: in every state of a game each foundation holds only cards of its
\* own suit, and a foundation of n cards holds the Ace and the n-1 lowest
\* other ranks of its suit (Ace, 2, 3, ...), in ascending order with the
\* highest on top.
C29_FoundationsBuiltUp ==
    \A s \in 0 .. 3 :
        LET n == Len(aces[s])
        IN  /\ \A k \in 1 .. n : SuitLetter(aces[s][k]) = initials[s + 1]
            /\ \A k \in 1 .. n : NaturalRank(aces[s][k]) = n - k + 1
            /\ aces[s] = FoundationStack(s, n)

\* a move has just put a third card on a foundation while another
\* foundation holds cards too
C29_Witness ==
    /\ last.op = "move"
    /\ last.err = "none"
    /\ last.dest \in SeqToSet(initials)
    /\ \E s, t \in 0 .. 3 :
           /\ s # t
           /\ last.dest = initials[s + 1]
           /\ Len(aces[s]) = 3
           /\ Len(aces[t]) > 0

(* ---------------------------- C30 --------------------------------------- *)
\* C30: in every state of a game the face-up run of every tableau column
\* is a legal sequence: any two face-up cards that lie one on the other
\* (indices j and j+1 with j+1 < faceup_count) differ in colour, and the
\* rank of the deeper one is exactly one more than the rank of the card
\* lying on it.
C30_FaceUpRunsLegal ==
    \A p \in 0 .. (TableauCount - 1) :
        /\ faceup_count[p] <= Len(tableau[p])
        /\ \A j \in 0 .. (faceup_count[p] - 2) :
               LET upper == item(tableau[p], j)
                   deeper == item(tableau[p], j + 1)
               IN  /\ IsRed(upper) # IsRed(deeper)
                   /\ AceHighRank(deeper) = AceHighRank(upper) + 1

\* a move has just carried cards to a column whose face-up run is now four
\* cards long
C30_Witness ==
    /\ last.op = "move"
    /\ last.err = "none"
    /\ last.dest \in SeqToSet(TableauLetters)
    /\ faceup_count[index(TableauLetters, last.dest)] = 4

(* ---------------------------- C31 --------------------------------------- *)
\* C31: progress never goes back, whatever moves and turns of the deck are
\* made: no card leaves a foundation (no foundation gets smaller, and what
\* it held stays under what it holds), so that game_over, once true, stays
\* true; and the number of face-down cards in the tableau never grows.
RECURSIVE FaceDownTotal(_, _, _)
FaceDownTotal(T, fc, p) ==
    IF p < 0 THEN 0
    ELSE (Len(T[p]) - fc[p]) + FaceDownTotal(T, fc, p - 1)

\* (The main loop makes no call on a finished game, so what the calls do
\* to one is computed on the finished games it reaches.)
C31_ProgressIsMonotone ==
    /\ [][CommandStep =>
             /\ \A s \in 0 .. 3 :
                    /\ Len(aces'[s]) >= Len(aces[s])
                    /\ SubSeq(aces'[s], Len(aces'[s]) - Len(aces[s]) + 1,
                              Len(aces'[s])) = aces[s]
             /\ (game_over(Game) => game_over(Game'))
             /\ FaceDownTotal(tableau', faceup_count', TableauCount - 1)
                    <= FaceDownTotal(tableau, faceup_count, TableauCount - 1)]_vars
    /\ [](game_over(Game) =>
             /\ game_over(turn_the_deck(Game))
             /\ turn_the_deck(Game).aces = aces
             /\ \A source_letter \in SourceLetters, dest_letter \in DestLetters :
                    /\ game_over(move(Game, source_letter, dest_letter).game)
                    /\ move(Game, source_letter, dest_letter).game.aces = aces)

\* a move to a foundation has just left fewer face-down cards in the
\* tableau than the deal put there, with two cards or more on a foundation
C31_Witness ==
    /\ last.op = "move"
    /\ last.err = "none"
    /\ last.dest \in SeqToSet(initials)
    /\ last.source \in SeqToSet(TableauLetters)
    /\ \E s \in 0 .. 3 : Len(aces[s]) >= 2
    /\ FaceDownTotal(tableau, faceup_count, TableauCount - 1)
           < (TableauCount * (TableauCount - 1)) \div 2

(* ---------------------------- C32 --------------------------------------- *)
\* C32: no move puts a card on an Ace in a tableau column, and a King is
\* moved to a tableau column only when the column is empty: in every state
\* of a game no column has a King lying directly on a face-up Ace, and no
\* face-up card at all lying on an Ace.
C32_NoKingOnAce ==
    \A p \in 0 .. (TableauCount - 1) :
        \A j \in 0 .. (Min(faceup_count[p], Len(tableau[p])) - 2) :
            /\ ~(AceHighRank(item(tableau[p], j)) = rK
                    /\ AceHighRank(item(tableau[p], j + 1)) = rA)
            /\ AceHighRank(item(tableau[p], j + 1)) # rA

\* a move has just put a King on the face-up Ace of a column
C32_Witness ==
    /\ last.op = "move"
    /\ last.err = "none"
    /\ last.dest \in SeqToSet(TableauLetters)
    /\ LET p == index(TableauLetters, last.dest)
       IN  /\ faceup_count[p] >= last.k + 1
           /\ AceHighRank(item(tableau[p], last.k - 1)) = rK
           /\ AceHighRank(item(tableau[p], last.k)) = rA

\* what does hold of the code: an Ace is never put on a card of a column,
\* so that a face-up Ace is the deepest face-up card of its column, and
\* the only card ever lying on it is a King of the other colour
C32_AceStaysDeepest ==
    \A p \in 0 .. (TableauCount - 1) :
        \A j \in 0 .. (Min(faceup_count[p], Len(tableau[p])) - 1) :
            /\ (AceHighRank(item(tableau[p], j)) = rA => j = faceup_count[p] - 1)
            /\ (j >= 1 /\ AceHighRank(item(tableau[p], j)) = rA)
                   => /\ AceHighRank(item(tableau[p], j - 1)) = rK
                      /\ IsRed(item(tableau[p], j - 1)) # IsRed(item(tableau[p], j))

(* ---------------------------- C33 --------------------------------------- *)
\* C33: each command of the game changes only what it names.
\* turn_the_deck leaves every tableau column, every foundation and every
\* face-up count as they were, and the cards held by the deck (undealt)
\* and the pack together are the same cards as before.  A move that is
\* carried out leaves the deck as it was, and leaves as they were every
\* pile and every face-up count other than those of its source and of its
\* destination.
C33_CommandsChangeWhatTheyName ==
    /\ [][TurnStep =>
             /\ tableau' = tableau
             /\ aces' = aces
             /\ faceup_count' = faceup_count
             /\ Len(deck'.access) = Len(deck.access)
             /\ cards_left(deck') + Len(pack') = cards_left(deck) + Len(pack)
             /\ SeqToSet(undealt(deck')) \cup SeqToSet(pack')
                    = SeqToSet(undealt(deck)) \cup SeqToSet(pack)]_vars
    /\ [][(last'.op = "move" /\ last'.err = "none") =>
             /\ deck' = deck
             /\ (last'.source # "P" => pack' = pack)
             /\ \A p \in 0 .. (TableauCount - 1) :
                    TableauLetters[p + 1] \notin {last'.source, last'.dest}
                        => /\ tableau'[p] = tableau[p]
                           /\ faceup_count'[p] = faceup_count[p]
             /\ \A s \in 0 .. 3 :
                    initials[s + 1] # last'.dest => aces'[s] = aces[s]]_vars

\* a move between two columns has just been carried out while the pack,
\* a foundation and another column with several face-up cards hold cards
C33_Witness ==
    /\ last.op = "move"
    /\ last.err = "none"
    /\ last.source \in SeqToSet(TableauLetters)
    /\ last.dest \in SeqToSet(TableauLetters)
    /\ Len(pack) > 0
    /\ \E s \in 0 .. 3 : Len(aces[s]) > 0
    /\ \E p \in 0 .. (TableauCount - 1) :
           /\ TableauLetters[p + 1] \notin {last.source, last.dest}
           /\ faceup_count[p] >= 2

====
